---- MODULE Spec2Model ----
(***************************************************************************)
(* State-machine model of app.py (vehicle-monitoring): the module-level    *)
(* store TARGET_PLATE_NUMBERS / RECIPIENT_NAME / RECIPIENT_PHONE_NUMBER,   *)
(* the set_target and upload_image request handlers, send_sms, and the     *)
(* string normalisation they apply.  Strings are sequences of one-char     *)
(* strings.  Requests are served by worker threads that interleave at the  *)
(* granularity of one access to a module-level variable.                   *)
(***************************************************************************)
EXTENDS Integers, Sequences, FiniteSets, TLC

\* ------------------------------------------------------------------ bounds
\* total number of requests the workers serve in one behaviour
MaxRequests == 3
\* number of OCR readings one image yields before de-duplication
MaxDetected == 2

\* worker threads of the (threaded) development server
Threads == {1, 2}

\* --------------------------------------------------------- string helpers
\* characters str.strip() removes (two representatives of Python whitespace)
Whitespace == {" ", "\t"}

RECURSIVE LStrip(_)
LStrip(s) ==
  IF s # <<>> /\ Head(s) \in Whitespace THEN LStrip(Tail(s)) ELSE s

RECURSIVE RStrip(_)
RStrip(s) ==
  IF s # <<>> /\ s[Len(s)] \in Whitespace
  THEN RStrip(SubSeq(s, 1, Len(s) - 1)) ELSE s

\* str.strip()
Strip(s) == RStrip(LStrip(s))

UpperChar(c) ==
  IF c = "a" THEN "A" ELSE IF c = "b" THEN "B" ELSE c

\* str.upper()
Upper(s) == [i \in 1..Len(s) |-> UpperChar(s[i])]

\* str.replace(" ", "")
ReplaceSpace(s) == SelectSeq(s, LAMBDA c : c # " ")

\* str.split(","): always at least one piece; "" gives [""]
RECURSIVE Split(_)
Split(s) ==
  IF \E i \in 1..Len(s) : s[i] = ","
  THEN LET i == CHOOSE k \in 1..Len(s) :
                  s[k] = "," /\ \A j \in 1..(k - 1) : s[j] # ","
       IN <<SubSeq(s, 1, i - 1)>> \o Split(SubSeq(s, i + 1, Len(s)))
  ELSE <<s>>

\* the per-entry normalisation of set_target: p.strip().upper().replace(" ", "")
NormalizeTarget(p) == ReplaceSpace(Upper(Strip(p)))

\* [normalise(p) for p in plate_numbers.split(",") if p.strip()]
RECURSIVE TargetsOf(_)
TargetsOf(pieces) ==
  IF pieces = <<>> THEN <<>>
  ELSE (IF Strip(Head(pieces)) # <<>>
        THEN <<NormalizeTarget(Head(pieces))>> ELSE <<>>)
       \o TargetsOf(Tail(pieces))

ParseTargets(plate_numbers) == TargetsOf(Split(plate_numbers))

\* line 107: not plate_numbers or not phone_number or not name
MissingFieldAll(plate_numbers, phone_number, name) ==
  plate_numbers = <<>> /\ phone_number = <<>> /\ name = <<>>
MissingField(plate_numbers, phone_number, name) ==
  plate_numbers = <<>> \/ phone_number = <<>> \/ name = <<>>

\* ------------------------------------------------------------------ inputs
\* plate_number form values: empty; a duplicated plate; an entry with
\* inner and outer spaces, an empty entry and an entry with an inner tab
PlateInputs ==
  { <<>>, <<"a", ",", "a">>,
    <<" ", "a", " ", "b", ",", ",", "a", "\t", "b">> }
\* phone_number form values: whitespace-only, plain, with a leading space
PhoneInputs == { <<" ">>, <<"1">>, <<" ", "2">> }
\* name form values: whitespace-only, plain
NameInputs == { <<"\t">>, <<"n">> }

\* ------------------------------------------------------------------- state
VARIABLES
  TARGET_PLATE_NUMBERS,     \* line 22
  RECIPIENT_NAME,           \* line 23
  RECIPIENT_PHONE_NUMBER,   \* line 24
  ACCOUNT_SID,              \* line 17
  AUTH_TOKEN,               \* line 18
  FROM_PHONE,               \* line 19
  req,                      \* per worker: the request it is serving
  accepted,                 \* history: configurations that passed line 107
  served                    \* history: number of requests begun

store == <<TARGET_PLATE_NUMBERS, RECIPIENT_NAME, RECIPIENT_PHONE_NUMBER>>
creds == <<ACCOUNT_SID, AUTH_TOKEN, FROM_PHONE>>
vars == <<TARGET_PLATE_NUMBERS, RECIPIENT_NAME, RECIPIENT_PHONE_NUMBER,
          ACCOUNT_SID, AUTH_TOKEN, FROM_PHONE, req, accepted, served>>

None == "None"
Idle == [handler |-> "none", pc |-> "idle"]

\* os.environ.get(..., ""): absent/empty or set
EnvValues == {"", "set"}

\* every combination of the three credentials
AllCredentials == EnvValues \X EnvValues \X EnvValues
\* no credential configured, or all three
PlainCredentials == { <<"", "", "">>, <<"set", "set", "set">> }

\* the module after import (lines 17-24) with the credentials drawn from C
InitWith(C) ==
  /\ TARGET_PLATE_NUMBERS = <<>>
  /\ RECIPIENT_NAME = <<>>
  /\ RECIPIENT_PHONE_NUMBER = <<>>
  /\ \E c \in C : ACCOUNT_SID = c[1] /\ AUTH_TOKEN = c[2] /\ FROM_PHONE = c[3]
  /\ req = [t \in Threads |-> Idle]
  /\ accepted = {}
  /\ served = 0

\* the concurrent specification starts with no credential or with all three
\* (send_sms tells only these two cases apart, line 33); the sequential one
\* starts with every combination
Init == InitWith(PlainCredentials)
InitSeq == InitWith(AllCredentials)

\* a worker is free when it serves no request; a new request goes to the
\* lowest-numbered free worker (workers are interchangeable)
Free(t) == req[t].pc \in {"idle", "done"}
CanBegin(t) ==
  /\ Free(t)
  /\ \A u \in Threads : u < t => ~Free(u)
  /\ served < MaxRequests

\* -------------------------------------------------------------- set_target
\* lines 103-109: read and strip the form, validate, reject or go on
SetTargetBegin(t, plate_number, phone_number, name) ==
  /\ CanBegin(t)
  /\ served' = served + 1
  /\ LET form == [plate_number |-> plate_number,
                  phone_number |-> phone_number, name |-> name]
         pn == Strip(plate_number)
         ph == Strip(phone_number)
         nm == Strip(name)
     IN IF MissingField(pn, ph, nm)
        THEN /\ req' = [req EXCEPT ![t] =
                  [handler |-> "set_target", pc |-> "done", form |-> form,
                   flash |-> [category |-> "error", text |-> "Please enter"],
                   response |-> "redirect:login"]]
             /\ accepted' = accepted
        ELSE /\ req' = [req EXCEPT ![t] =
                  [handler |-> "set_target", pc |-> "set_plates",
                   form |-> form, plate_numbers |-> pn,
                   phone_number |-> ph, name |-> nm]]
             /\ accepted' = accepted \cup {<<ParseTargets(pn), nm, ph>>}
  /\ UNCHANGED <<store, creds>>

\* line 111
SetTargetPlates(t) ==
  /\ req[t].handler = "set_target" /\ req[t].pc = "set_plates"
  /\ TARGET_PLATE_NUMBERS' = ParseTargets(req[t].plate_numbers)
  /\ req' = [req EXCEPT ![t].pc = "set_name"]
  /\ UNCHANGED <<RECIPIENT_NAME, RECIPIENT_PHONE_NUMBER, creds, accepted, served>>

\* line 112
SetTargetName(t) ==
  /\ req[t].handler = "set_target" /\ req[t].pc = "set_name"
  /\ RECIPIENT_NAME' = req[t].name
  /\ req' = [req EXCEPT ![t].pc = "set_phone"]
  /\ UNCHANGED <<TARGET_PLATE_NUMBERS, RECIPIENT_PHONE_NUMBER, creds, accepted, served>>

\* line 113
SetTargetPhone(t) ==
  /\ req[t].handler = "set_target" /\ req[t].pc = "set_phone"
  /\ RECIPIENT_PHONE_NUMBER' = req[t].phone_number
  /\ req' = [req EXCEPT ![t].pc = "set_flash"]
  /\ UNCHANGED <<TARGET_PLATE_NUMBERS, RECIPIENT_NAME, creds, accepted, served>>

\* lines 114-116: the notice is formatted from the module-level variables
SetTargetDone(t) ==
  /\ req[t].handler = "set_target" /\ req[t].pc = "set_flash"
  /\ req' = [req EXCEPT ![t] =
         [handler |-> "set_target", pc |-> "done", form |-> req[t].form,
          flash |-> [category |-> "success", text |-> "Target Plates",
                     targets |-> TARGET_PLATE_NUMBERS,
                     recipient |-> RECIPIENT_NAME],
          response |-> "redirect:detect_license_plate"]]
  /\ UNCHANGED <<store, creds, accepted, served>>

\* ------------------------------------------------------------ upload_image
\* what a request can carry in 'image_file' (request.files)
FileInputs == {"absent", "no_filename", "image", "corrupt"}
\* values of an 'image_data' field: a data URL of an image, or a string that
\* _read_image_from_base64 cannot decode
DataUrls == {"data_url_image", "no_comma"}

\* the requests upload_image is given.  A body is multipart/form-encoded or
\* JSON (is_json); json_image_data is the 'image_data' member of a JSON body,
\* None when the body has no such member, and "no_body" when the request has
\* no JSON body.
UploadRequests ==
  { r \in [image_file : FileInputs, form_image_data : {""} \cup DataUrls,
           is_json : BOOLEAN, json_image_data : {None, "no_body"} \cup DataUrls] :
      /\ r.is_json <=> r.json_image_data # "no_body"
      /\ r.json_image_data # "no_body" =>
            r.form_image_data = "" /\ r.image_file = "absent"
      /\ r.image_file \in {"image", "corrupt"} => r.form_image_data = "" }

\* line 152
HasImageFile(r) == r.image_file \in {"image", "corrupt"}

\* _read_image_from_file_storage: Image.open raises on bytes that are no image
ReadImageFromFileStorage(f) == IF f = "image" THEN "bitmap" ELSE "raise"

\* _read_image_from_base64: the unpacking of split(",", 1) raises without a
\* comma
ReadImageFromBase64Lenient(u) == "bitmap"
ReadImageFromBase64(u) == IF u = "data_url_image" THEN "bitmap" ELSE "raise"

\* line 159:  A or B if C else D   parses as   (A or B) if C else D
ImageData(r) ==
  IF r.is_json
  THEN (IF r.form_image_data # "" THEN r.form_image_data ELSE r.json_image_data)
  ELSE ""

\* Python truthiness of the image_data value (None and "" are falsy)
Truthy(v) == v \notin {"", None}

\* texts the OCR engine reads from the plate-like regions of an image
\* (stripped and non-empty, lines 66-67)
OcrTexts == { <<"A">>, <<"a", " ", "b">> }

RECURSIVE SeqsUpTo(_, _)
SeqsUpTo(S, n) ==
  IF n = 0 THEN {<<>>}
  ELSE LET shorter == SeqsUpTo(S, n - 1)
       IN shorter \cup {Append(q, x) : q \in {z \in shorter : Len(z) = n - 1}, x \in S}

InSeq(x, q) == \E i \in 1..Len(q) : q[i] = x

\* lines 70-74: keep the first occurrence of each text
RECURSIVE Unique(_)
Unique(q) ==
  IF q = <<>> THEN <<>>
  ELSE LET front == Unique(SubSeq(q, 1, Len(q) - 1))
           last == q[Len(q)]
       IN IF InSeq(last, front) THEN front ELSE Append(front, last)

\* line 173: d.upper().replace(" ", "")
NormalizeDetected(d) == ReplaceSpace(Upper(d))

\* lines 178-180 for one candidate: d is appended once per equal target
RECURSIVE MatchesForAnyTarget(_, _, _)
MatchesForAnyTarget(d, dn, targets) ==
  IF targets = <<>> THEN <<>>
  ELSE (IF Head(targets) # <<>> THEN <<d>> ELSE <<>>)
       \o MatchesForAnyTarget(d, dn, Tail(targets))
RECURSIVE MatchesFor(_, _, _)
MatchesFor(d, dn, targets) ==
  IF targets = <<>> THEN <<>>
  ELSE (IF Head(targets) # <<>> /\ Head(targets) = dn THEN <<d>> ELSE <<>>)
       \o MatchesFor(d, dn, Tail(targets))

\* get_location: coordinates with a city, coordinates without, or nothing
Locations ==
  { [latitude |-> "lat", longitude |-> "lon", place_name |-> "city"],
    [latitude |-> "lat", longitude |-> "lon", place_name |-> "Unknown place"],
    [latitude |-> "Unknown", longitude |-> "Unknown", place_name |-> "Unknown place"] }

\* what client.messages.create can do: return a message or raise
GatewayOutcomes == {"sid", "raise"}

\* send_sms (lines 31-39): [gateway calls made, result]
SendSmsPartialGuard(sid, token, from, outcome) ==
  IF ~(sid # "" /\ token # "")
  THEN [gateway |-> 0, result |-> None]
  ELSE [gateway |-> 1, result |-> outcome]
SendSms(sid, token, from, outcome) ==
  IF ~(sid # "" /\ token # "" /\ from # "")
  THEN [gateway |-> 0, result |-> None]
  ELSE [gateway |-> 1, result |-> outcome]

\* line 184: if matches and RECIPIENT_PHONE_NUMBER
ShouldNotifyAnyResult(matches, phone) == phone # <<>>
ShouldNotify(matches, phone) == matches # <<>> /\ phone # <<>>

UploadDone(r, flash, response) ==
  [handler |-> "upload_image", pc |-> "done", request |-> r,
   flash |-> flash, response |-> response]

\* lines 150-169: choose the image source, decode it
UploadBegin(t, r) ==
  /\ CanBegin(t)
  /\ served' = served + 1
  /\ LET image_data == ImageData(r)
         image == IF HasImageFile(r) THEN ReadImageFromFileStorage(r.image_file)
                  ELSE IF Truthy(image_data) THEN ReadImageFromBase64(image_data)
                  ELSE None
         decoded == IF HasImageFile(r) THEN "image_file"
                    ELSE IF Truthy(image_data) THEN image_data ELSE None
     IN req' = [req EXCEPT ![t] =
          IF image = "raise"
          THEN UploadDone(r, [category |-> "error",
                              text |-> IF HasImageFile(r)
                                       THEN "Failed to read uploaded image"
                                       ELSE "Failed to decode image data"],
                          "redirect:detect_license_plate")
               @@ [decoded |-> decoded, detect_calls |-> 0, sms_calls |-> 0]
          ELSE IF image = None
          THEN UploadDone(r, [category |-> "error", text |-> "No image received."],
                          "redirect:detect_license_plate")
               @@ [decoded |-> decoded, detect_calls |-> 0, sms_calls |-> 0]
          ELSE [handler |-> "upload_image", pc |-> "detect", request |-> r,
                decoded |-> decoded, detect_calls |-> 0, sms_calls |-> 0]]
  /\ UNCHANGED <<store, creds, accepted>>

\* lines 171-176: detection (OCR readings, de-duplicated) and normalisation;
\* from here on the handler reads the bitmap and its own locals, the request
\* is not looked at again
UploadDetect(t, readings) ==
  /\ req[t].handler = "upload_image" /\ req[t].pc = "detect"
  /\ req' = [req EXCEPT ![t] =
         [handler |-> "upload_image", pc |-> "match",
          detect_calls |-> 1, sms_calls |-> 0,
          detected |-> Unique(readings), i |-> 1, matches |-> <<>>,
          targets_read |-> <<>>, phone_at_match |-> None]]
  /\ UNCHANGED <<store, creds, accepted, served>>

\* lines 177-180, one candidate: the inner loop iterates the list that
\* TARGET_PLATE_NUMBERS names when the loop starts
UploadMatch(t) ==
  /\ req[t].handler = "upload_image" /\ req[t].pc = "match"
  /\ req[t].i <= Len(req[t].detected)
  /\ LET d == req[t].detected[req[t].i]
         dn == NormalizeDetected(d)
     IN req' = [req EXCEPT
           ![t].matches = @ \o MatchesFor(d, dn, TARGET_PLATE_NUMBERS),
           ![t].targets_read = Append(@, TARGET_PLATE_NUMBERS),
           ![t].phone_at_match = RECIPIENT_PHONE_NUMBER,
           ![t].i = @ + 1]
  /\ UNCHANGED <<store, creds, accepted, served>>

\* lines 181-184 and 188-199: locate, test matches and RECIPIENT_PHONE_NUMBER
UploadCheck(t, location) ==
  /\ req[t].handler = "upload_image" /\ req[t].pc = "match"
  /\ req[t].i > Len(req[t].detected)
  /\ LET base == [handler |-> "upload_image", detect_calls |-> 1,
                  detected |-> req[t].detected, matches |-> req[t].matches,
                  targets_read |-> req[t].targets_read,
                  phone_at_match |-> req[t].phone_at_match,
                  location |-> location]
         page == [response |-> "render:result.html", sms_sid |-> None,
                  sms_calls |-> 0, gateway_calls |-> 0,
                  gateway_outcome |-> None, to_phone |-> None]
     IN req' = [req EXCEPT ![t] =
          IF ShouldNotify(req[t].matches, RECIPIENT_PHONE_NUMBER)
          THEN base @@ [pc |-> "send", sms_calls |-> 0]
          ELSE IF req[t].matches # <<>>
          THEN base @@ page @@ [pc |-> "done",
                 flash |-> [category |-> "warning",
                            text |-> "Match found but recipient phone not configured."]]
          ELSE base @@ page @@ [pc |-> "done",
                 flash |-> [category |-> "info", text |-> "No matching plates found."]]]
  /\ UNCHANGED <<store, creds, accepted, served>>

\* lines 185-187 and 193-199: send_sms(message, RECIPIENT_PHONE_NUMBER); an
\* exception of the gateway call is not caught anywhere in the handler
UploadSend(t, outcome) ==
  /\ req[t].handler = "upload_image" /\ req[t].pc = "send"
  /\ LET sent == SendSms(ACCOUNT_SID, AUTH_TOKEN, FROM_PHONE, outcome)
         base == [handler |-> "upload_image", pc |-> "done",
                  detect_calls |-> 1,
                  detected |-> req[t].detected, matches |-> req[t].matches,
                  targets_read |-> req[t].targets_read,
                  phone_at_match |-> req[t].phone_at_match,
                  location |-> req[t].location,
                  sms_calls |-> 1, gateway_calls |-> sent.gateway,
                  gateway_outcome |-> IF sent.gateway = 1 THEN outcome ELSE None,
                  to_phone |-> RECIPIENT_PHONE_NUMBER]
     IN req' = [req EXCEPT ![t] =
          IF sent.result = "raise"
          THEN base @@ [response |-> "error:500", sms_sid |-> None,
                        flash |-> [category |-> None, text |-> None]]
          ELSE base @@ [response |-> "render:result.html", sms_sid |-> sent.result,
                        flash |-> [category |-> "success",
                                   text |-> "Match found. Notification sent (if Twilio configured)."]]]
  /\ UNCHANGED <<store, creds, accepted, served>>

Next ==
  \/ \E t \in Threads, p \in PlateInputs, ph \in PhoneInputs, n \in NameInputs :
        SetTargetBegin(t, p, ph, n)
  \/ \E t \in Threads : SetTargetPlates(t)
  \/ \E t \in Threads : SetTargetName(t)
  \/ \E t \in Threads : SetTargetPhone(t)
  \/ \E t \in Threads : SetTargetDone(t)
  \/ \E t \in Threads, r \in UploadRequests : UploadBegin(t, r)
  \/ \E t \in Threads, readings \in SeqsUpTo(OcrTexts, MaxDetected) :
        UploadDetect(t, readings)
  \/ \E t \in Threads : UploadMatch(t)
  \/ \E t \in Threads, location \in Locations : UploadCheck(t, location)
  \/ \E t \in Threads, outcome \in GatewayOutcomes : UploadSend(t, outcome)

Spec == Init /\ [][Next]_vars

\* the same handlers with requests served one at a time by worker 1, under
\* every combination of credentials
NextSeq ==
  \/ \E p \in PlateInputs, ph \in PhoneInputs, n \in NameInputs :
        SetTargetBegin(1, p, ph, n)
  \/ SetTargetPlates(1)
  \/ SetTargetName(1)
  \/ SetTargetPhone(1)
  \/ SetTargetDone(1)
  \/ \E r \in UploadRequests : UploadBegin(1, r)
  \/ \E readings \in SeqsUpTo(OcrTexts, MaxDetected) : UploadDetect(1, readings)
  \/ UploadMatch(1)
  \/ \E location \in Locations : UploadCheck(1, location)
  \/ \E outcome \in GatewayOutcomes : UploadSend(1, outcome)

SpecSeq == InitSeq /\ [][NextSeq]_vars
\* =================================================================== claims
Uploads == { t \in Threads : req[t].handler = "upload_image" }
SetTargets == { t \in Threads : req[t].handler = "set_target" }

\* a string that is empty or consists of whitespace only
Blank(s) == \A k \in 1..Len(s) : s[k] \in Whitespace
AnyBlank(form) ==
  Blank(form.plate_number) \/ Blank(form.phone_number) \/ Blank(form.name)

InitialStore == <<<<>>, <<>>, <<>>>>

\* C1, state part: a set_target submission with an empty or whitespace-only
\* plate_number, phone_number or name has ended with an 'error' notice and a
\* redirect to the configuration form
C1_Rejected ==
  \A t \in SetTargets :
    AnyBlank(req[t].form) =>
      /\ req[t].pc = "done"
      /\ req[t].flash.category = "error"
      /\ req[t].response = "redirect:login"

\* C1, step part: no step of such a submission changes TARGET_PLATE_NUMBERS,
\* RECIPIENT_NAME or RECIPIENT_PHONE_NUMBER
C1_StoreKept ==
  \A t \in Threads :
    (req'[t] # req[t] /\ req'[t].handler = "set_target" /\ AnyBlank(req'[t].form))
      => store' = store

\* C1: every set_target submission with a blank required field is rejected:
\* the store keeps its values, an 'error' notice is produced and the response
\* redirects to the configuration form
C1_BlankSubmissionRejected == []C1_Rejected /\ [][C1_StoreKept]_vars

\* a blank submission was rejected while the store held a configuration
C1_Witness ==
  \E t \in SetTargets :
    /\ AnyBlank(req[t].form) /\ req[t].pc = "done"
    /\ TARGET_PLATE_NUMBERS # <<>> /\ RECIPIENT_PHONE_NUMBER # <<>>

\* C2: whenever no set_target request is part-way through, the store is the
\* initial empty configuration or the configuration of one accepted submission
C2_WholesaleOverwrite ==
  (\A t \in SetTargets : req[t].pc = "done") =>
     store = InitialStore \/ store \in accepted

\* C3: every element of TARGET_PLATE_NUMBERS is non-empty, uppercase and free
\* of whitespace of any kind
C3_TargetsNormalized ==
  \A k \in 1..Len(TARGET_PLATE_NUMBERS) :
    LET p == TARGET_PLATE_NUMBERS[k]
    IN /\ p # <<>>
       /\ \A j \in 1..Len(p) : p[j] \notin {"a", "b"} /\ p[j] \notin Whitespace

\* the subsequence of the candidates whose normalised form is one of targets
MatchingCandidates(detected, targets) ==
  SelectSeq(detected, LAMBDA d : InSeq(NormalizeDetected(d), targets))

\* C4: once the match loop has run against one target list, matches is the
\* subsequence of the (duplicate-free) candidates whose normalised form equals
\* some target: discovery order, each matching candidate exactly once
C4_MatchesAreSubsequence ==
  \A t \in Uploads :
    (/\ req[t].pc \in {"send", "done"} /\ req[t].detect_calls = 1
     /\ \A k \in 1..Len(req[t].targets_read) :
           req[t].targets_read[k] = req[t].targets_read[1])
    => (req[t].detected # <<>> =>
          req[t].matches =
             MatchingCandidates(req[t].detected, req[t].targets_read[1]))

\* C5: when a match was found, a recipient phone and the credentials are
\* present and the gateway call fails, the handler ends with a warning notice
\* and the rendered result page
C5_GatewayFailureCaught ==
  \A t \in Uploads :
    (req[t].pc = "done" /\ req[t].sms_calls = 1 /\ req[t].gateway_outcome = "raise")
    => /\ req[t].response = "render:result.html"
       /\ req[t].flash.category = "warning"

\* the non-empty image_data values of a request, form field or JSON body
SuppliedImageData(r) ==
  ({r.form_image_data} \cup {r.json_image_data}) \cap DataUrls

\* the requests whose image source has been chosen and not yet consumed by
\* the detection, or that ended before the detection
AtSource == { t \in Uploads : "request" \in DOMAIN req[t] }

\* C6: without an image_file, a non-empty image_data value from the form or
\* from a JSON body is what the decoder is given, and 'No image received.'
\* is the outcome only when neither a file nor an image_data value came
C6_ImageDataAccepted ==
  \A t \in AtSource :
    ~HasImageFile(req[t].request) =>
      /\ \A u \in SuppliedImageData(req[t].request) : req[t].decoded = u
      /\ (req[t].pc = "done" /\ req[t].flash.text = "No image received.")
            => SuppliedImageData(req[t].request) = {}

\* the request gave the decoder something that is not an image
DecodeFailed(t) ==
  /\ t \in AtSource
  /\ \/ req[t].decoded = "image_file" /\ req[t].request.image_file = "corrupt"
     \/ req[t].decoded = "no_comma"

\* C7, state part: a request whose image cannot be decoded has ended with an
\* 'error' notice and a redirect to the detection page, without detection and
\* without a notification
C7_DecodeFailureAborts ==
  \A t \in Uploads :
    DecodeFailed(t) =>
      /\ req[t].pc = "done"
      /\ req[t].flash.category = "error"
      /\ req[t].response = "redirect:detect_license_plate"
      /\ req[t].detect_calls = 0
      /\ req[t].sms_calls = 0

\* C7, step part: no step of upload_image changes the store
C7_StoreKept ==
  \A t \in Threads :
    (req'[t] # req[t] /\ req'[t].handler = "upload_image") => store' = store

\* C7: upload_image never writes the store, and a decoding failure gives an
\* error notice and a redirect to the detection page with no detection and no
\* notification
C7_UploadLeavesStore == []C7_DecodeFailureAborts /\ [][C7_StoreKept]_vars

\* a decoding failure while the store holds a configuration
C7_Witness ==
  \E t \in Uploads :
    DecodeFailed(t) /\ req[t].pc = "done" /\ TARGET_PLATE_NUMBERS # <<>>

\* C8: a request calls the notifier at most once and only with matches and a
\* non-empty recipient phone; with no match there is no notification, no
\* sms_sid and the 'No matching plates found.' notice
C8_NotifyOnlyOnMatch ==
  \A t \in Uploads :
    /\ req[t].sms_calls \in {0, 1}
    /\ req[t].sms_calls = 1 => req[t].matches # <<>> /\ req[t].to_phone # <<>>
    /\ (req[t].pc = "send" => req[t].matches # <<>>)
    /\ (req[t].pc = "done" /\ req[t].detect_calls = 1 /\ req[t].matches = <<>>)
         => /\ req[t].sms_calls = 0
            /\ req[t].sms_sid = None
            /\ req[t].flash = [category |-> "info",
                               text |-> "No matching plates found."]

\* candidates were detected, none matched, and a recipient phone is configured
C8_Witness ==
  \E t \in Uploads :
    /\ req[t].pc = "done" /\ req[t].detect_calls = 1
    /\ req[t].detected # <<>> /\ req[t].matches = <<>>
    /\ RECIPIENT_PHONE_NUMBER # <<>> /\ TARGET_PLATE_NUMBERS # <<>>

CredentialsComplete == ACCOUNT_SID # "" /\ AUTH_TOKEN # "" /\ FROM_PHONE # ""

\* C9: with a credential missing send_sms contacts no gateway, raises nothing
\* and returns None; a delivery identifier comes back only when all three are
\* present and the gateway call succeeded
C9_NoCredentialsNoOp ==
  \A t \in Uploads :
    (req[t].pc = "done" /\ req[t].sms_calls = 1) =>
      /\ ~CredentialsComplete =>
            /\ req[t].gateway_calls = 0
            /\ req[t].response # "error:500"
            /\ req[t].sms_sid = None
      /\ req[t].sms_sid # None =>
            /\ CredentialsComplete
            /\ req[t].gateway_calls = 1
            /\ req[t].gateway_outcome = "sid"

\* send_sms was called with exactly one credential missing
C9_Witness ==
  \E t \in Uploads :
    /\ req[t].pc = "done" /\ req[t].sms_calls = 1
    /\ ACCOUNT_SID # "" /\ AUTH_TOKEN # "" /\ FROM_PHONE = ""

\* C10: an alert is matched against target lists and sent to a phone that
\* each come from an accepted submission: every match normalises to a target
\* of a list the request read, every list read is empty or the plates of an
\* accepted submission, and the phone is the phone of an accepted submission
\* (not necessarily the same one, see C10_Witness)
C10_AlertSources ==
  \A t \in Uploads :
    (req[t].pc = "done" /\ req[t].sms_calls = 1) =>
      /\ \A k \in 1..Len(req[t].targets_read) :
            \/ req[t].targets_read[k] = <<>>
            \/ \E a \in accepted : a[1] = req[t].targets_read[k]
      /\ \A m \in 1..Len(req[t].matches) :
            \E k \in 1..Len(req[t].targets_read) :
               InSeq(NormalizeDetected(req[t].matches[m]), req[t].targets_read[k])
      /\ \E b \in accepted : b[3] = req[t].to_phone

\* one request matched while the store held the plates and phone of one
\* accepted submission and then sent its alert to another phone, one that no
\* accepted submission combines with those plates
C10_Witness ==
  \E t \in Uploads :
    /\ req[t].pc = "done" /\ req[t].sms_calls = 1 /\ req[t].matches # <<>>
    /\ \E a \in accepted :
         /\ \A k \in 1..Len(req[t].targets_read) : req[t].targets_read[k] = a[1]
         /\ req[t].phone_at_match = a[3]
         /\ req[t].to_phone # a[3]
    /\ \A c \in accepted :
         ~(c[1] = req[t].targets_read[1] /\ c[3] = req[t].to_phone)
====
